---- MODULE Spec2Model ----
(***************************************************************************)
(* Normalization layers of mlx.nn (LayerNorm, RMSNorm, GroupNorm,          *)
(* BatchNorm1d), python/mlx/nn/layers/normalization.py.                    *)
(*                                                                         *)
(* Array elements are exact real numbers of the form  a + c*sqrt(m)  with  *)
(* a, c rational and m a squarefree positive integer, which is closed      *)
(* under everything the layers compute (+, -, *, /, rsqrt of a rational).  *)
(* The form is canonical, so equality of records is equality of reals.     *)
(***************************************************************************)
EXTENDS Integers, Sequences, FiniteSets, TLC

VARIABLES cls, self, ctor, lastX, lastTraining, lastNorm, lastY, trainLog

vars == <<cls, self, ctor, lastX, lastTraining, lastNorm, lastY, trainLog>>

(***************************************************************************)
(* Rationals: <<n, d>> with d > 0 and gcd(|n|, d) = 1.                     *)
(***************************************************************************)
Abs(n) == IF n < 0 THEN -n ELSE n
Sign(n) == IF n < 0 THEN -1 ELSE 1

RECURSIVE GCD(_, _)
GCD(a, b) == IF b = 0 THEN a ELSE GCD(b, a % b)
LCM(a, b) == (a \div GCD(a, b)) * b

Reduced(n, d, g) == <<(Sign(d) * n) \div g, Abs(d) \div g>>
Q(n, d) == Reduced(n, d, GCD(Abs(n), Abs(d)))

QZero == <<0, 1>>
QOne == <<1, 1>>
\* the operations reduce before they multiply, so that intermediate
\* products stay small
QAddOver(x, y, d) == Q(x[1] * (d \div x[2]) + y[1] * (d \div y[2]), d)
QAdd(x, y) == QAddOver(x, y, LCM(x[2], y[2]))
QNeg(x) == <<-x[1], x[2]>>
QSub(x, y) == QAdd(x, QNeg(y))
QMulBy(x, y, g, h) == Q((x[1] \div g) * (y[1] \div h), (x[2] \div h) * (y[2] \div g))
QMul(x, y) == QMulBy(x, y, GCD(Abs(x[1]), y[2]), GCD(Abs(y[1]), x[2]))
QInv(x) == <<Sign(x[1]) * x[2], Abs(x[1])>>
QDiv(x, y) == QMul(x, QInv(y))

(***************************************************************************)
(* Reals a + c*sqrt(m).  m = 1 exactly when c = 0.  m = 0 marks a value    *)
(* that is not finite (rsqrt of a non-positive number) or not of this      *)
(* form; it propagates through every operation like a NaN.                 *)
(***************************************************************************)
NonFinite == [a |-> QZero, c |-> QZero, m |-> 0]

N(a, c, m) ==
    IF m = 0 THEN NonFinite
    ELSE IF c = QZero THEN [a |-> a, c |-> QZero, m |-> 1]
    ELSE IF m = 1 THEN [a |-> QAdd(a, c), c |-> QZero, m |-> 1]
    ELSE [a |-> a, c |-> c, m |-> m]

Rat(n, d) == [a |-> Q(n, d), c |-> QZero, m |-> 1]
NInt(n) == [a |-> <<n, 1>>, c |-> QZero, m |-> 1]
NZero == NInt(0)
NOne == NInt(1)

\* the common radicand of two operands, 0 when there is none
Radicand(x, y) ==
    IF x.m = 0 \/ y.m = 0 THEN 0
    ELSE IF x.m = 1 THEN y.m
    ELSE IF y.m = 1 \/ y.m = x.m THEN x.m
    ELSE 0

NAdd(x, y) == N(QAdd(x.a, y.a), QAdd(x.c, y.c), Radicand(x, y))
NNeg(x) == [a |-> QNeg(x.a), c |-> QNeg(x.c), m |-> x.m]
NSub(x, y) == NAdd(x, NNeg(y))
\* (a + c*sqrt(m)) * (b + d*sqrt(m)) = ab + cd*m + (ad + cb)*sqrt(m)
NMulIn(x, y, m) ==
    N(QAdd(QMul(x.a, y.a), QMul(QMul(x.c, y.c), <<m, 1>>)),
      QAdd(QMul(x.a, y.c), QMul(x.c, y.a)), m)
NMul(x, y) == NMulIn(x, y, Radicand(x, y))
NSquare(x) == NMul(x, x)

\* 1/x = (a - c*sqrt(m)) / (a^2 - c^2*m); 1/0 is not finite
NInvBy(x, den) ==
    IF x.m = 0 \/ den = QZero THEN NonFinite
    ELSE N(QDiv(x.a, den), QDiv(QNeg(x.c), den), x.m)
NInv(x) == NInvBy(x, QSub(QMul(x.a, x.a), QMul(QMul(x.c, x.c), <<x.m, 1>>)))
NDiv(x, y) == NMul(x, NInv(y))

\* n = k^2 * m with m squarefree: <<k, m>>
RECURSIVE SquarePart(_, _, _)
SquarePart(n, k, p) ==
    IF p * p > n THEN <<k, n>>
    ELSE IF n % (p * p) = 0 THEN SquarePart(n \div (p * p), k * p, p)
    ELSE SquarePart(n, k, p + 1)

\* 1/sqrt(n/d) = sqrt(n*d)/n = (k/n) * sqrt(m)  where n*d = k^2 * m;
\* n and d are coprime, so their square parts kn, kd are taken separately
NRsqrtBy(x, kn, kd) == N(QZero, Q(kn[1] * kd[1], x.a[1]), kn[2] * kd[2])
NRsqrt(x) ==
    IF x.m # 1 \/ x.a[1] <= 0 THEN NonFinite
    ELSE NRsqrtBy(x, SquarePart(x.a[1], 1, 2), SquarePart(x.a[2], 1, 2))

\* sqrt(x) = x * rsqrt(x) for x > 0
NSqrt(x) == IF x = NZero THEN NZero ELSE NMul(x, NRsqrt(x))

(***************************************************************************)
(* Arrays (mx.array): a shape and the elements in row-major order.         *)
(* Flat positions are 0-based.                                             *)
(***************************************************************************)
RECURSIVE Prod(_)
Prod(s) == IF s = <<>> THEN 1 ELSE Head(s) * Prod(Tail(s))

RECURSIVE NSumFrom(_, _)
NSumFrom(s, i) == IF i > Len(s) THEN NZero ELSE NAdd(s[i], NSumFrom(s, i + 1))
NSum(s) == NSumFrom(s \o <<>>, 1)

Max(a, b) == IF a >= b THEN a ELSE b

\* the elements are concatenated with the empty sequence so that an array
\* is held as a tuple of values, not as an unevaluated function
Array(shape, data) == [shape |-> shape \o <<>>, data |-> data \o <<>>]
Scalar(v) == Array(<<>>, <<v>>)
Full(shape, v) == Array(shape, [k \in 1..Prod(shape) |-> v])
Zeros(shape) == Full(shape, NZero)
Ones(shape) == Full(shape, NOne)
Ndim(x) == Len(x.shape)

\* row-major stride of axis ax
StrideOf(shape, ax) == Prod(SubSeq(shape, ax + 1, Len(shape)))

\* numpy-style broadcasting: shapes are aligned at the right and a
\* dimension of size 1 is stretched
DimAt(s, i, r) == IF i <= r - Len(s) THEN 1 ELSE s[i - (r - Len(s))]
BroadcastShape(s, t) ==
    [i \in 1..Max(Len(s), Len(t)) |->
        IF DimAt(s, i, Max(Len(s), Len(t))) = 1
        THEN DimAt(t, i, Max(Len(s), Len(t)))
        ELSE DimAt(s, i, Max(Len(s), Len(t)))] \o <<>>
\* the position, in an operand of shape s, of the element that lands on
\* position k of the broadcast shape sh: axes are peeled off from the last
\* one (i), a stretched axis does not advance
RECURSIVE BroadcastPos(_, _, _, _, _)
BroadcastPos(k, sh, s, i, stride) ==
    IF i = 0 \/ i <= Len(sh) - Len(s) THEN 0
    ELSE (IF DimAt(s, i, Len(sh)) = 1 THEN 0 ELSE (k % sh[i]) * stride)
         + BroadcastPos(k \div sh[i], sh, s, i - 1, stride * DimAt(s, i, Len(sh)))

\* one element of x + y, x - y or x * y
Apply(op, a, b) ==
    IF op = "+" THEN NAdd(a, b) ELSE IF op = "-" THEN NSub(a, b) ELSE NMul(a, b)
ElementwiseTo(op, x, y, sh) ==
    Array(sh, [k \in 1..Prod(sh) |->
                 Apply(op, x.data[BroadcastPos(k - 1, sh, x.shape, Len(sh), 1) + 1],
                           y.data[BroadcastPos(k - 1, sh, y.shape, Len(sh), 1) + 1])])
Elementwise(op, x, y) == ElementwiseTo(op, x, y, BroadcastShape(x.shape, y.shape))
Add(x, y) == Elementwise("+", x, y)
Sub(x, y) == Elementwise("-", x, y)
Mul(x, y) == Elementwise("*", x, y)
Square(x) == Array(x.shape, [k \in 1..Len(x.data) |-> NSquare(x.data[k])])
Rsqrt(x) == Array(x.shape, [k \in 1..Len(x.data) |-> NRsqrt(x.data[k])])

\* axis as Python gives it (negative counts from the end), 1-based result
Axis(x, axis) == IF axis < 0 THEN Ndim(x) + axis + 1 ELSE axis + 1
DropAxis(shape, ax) ==
    [i \in 1..(Len(shape) - 1) |-> IF i < ax THEN shape[i] ELSE shape[i + 1]]

\* the position in an array of shape `shape` of the index that position k
\* of shape sh spells out (sh has the same rank, axes peeled from i down)
RECURSIVE IndexPos(_, _, _, _)
IndexPos(k, sh, shape, i) ==
    IF i = 0 THEN 0
    ELSE (k % sh[i]) * StrideOf(shape, i) + IndexPos(k \div sh[i], sh, shape, i - 1)

\* mx.sum / mx.mean / mx.var over one axis
SumTo(x, ax, kept, keepdims) ==
    Array(IF keepdims THEN kept ELSE DropAxis(x.shape, ax),
          [k \in 1..Prod(kept) |->
             NSum([j \in 1..x.shape[ax] |->
                     x.data[IndexPos(k - 1, kept, x.shape, Len(kept))
                            + (j - 1) * StrideOf(x.shape, ax) + 1]])])
Sum(x, axis, keepdims) ==
    SumTo(x, Axis(x, axis), [x.shape EXCEPT ![Axis(x, axis)] = 1], keepdims)
DivideBy(s, n) == Array(s.shape, [k \in 1..Len(s.data) |-> NDiv(s.data[k], NInt(n))])
Mean(x, axis, keepdims) == DivideBy(Sum(x, axis, keepdims), x.shape[Axis(x, axis)])
\* population variance (ddof = 0)
Var(x, axis, keepdims) ==
    Mean(Square(Sub(x, Mean(x, axis, TRUE))), axis, keepdims)

\* x.reshape(shape), one entry of shape may be -1
Known(shape) == Prod([i \in 1..Len(shape) |-> IF shape[i] = -1 THEN 1 ELSE shape[i]] \o <<>>)
Reshape(x, shape) ==
    Array([i \in 1..Len(shape) |->
             IF shape[i] = -1 THEN Len(x.data) \div Known(shape) ELSE shape[i]],
          x.data)
\* x.transpose(perm): axis i of the result is axis perm[i] of x (0-based)
RECURSIVE TransposePos(_, _, _, _, _)
TransposePos(k, sh, perm, shape, i) ==
    IF i = 0 THEN 0
    ELSE (k % sh[i]) * StrideOf(shape, perm[i] + 1)
         + TransposePos(k \div sh[i], sh, perm, shape, i - 1)
TransposeTo(x, perm, sh) ==
    Array(sh, [k \in 1..Prod(sh) |->
                 x.data[TransposePos(k - 1, sh, perm, x.shape, Len(sh)) + 1]])
Transpose(x, perm) ==
    TransposeTo(x, perm, [i \in 1..Len(perm) |-> x.shape[perm[i] + 1]] \o <<>>)

(***************************************************************************)
(* Module base.  A module is a dictionary of attributes; "weight" in self  *)
(* is membership in its domain.  A new module is in training mode.         *)
(***************************************************************************)
ModuleInit == ("training" :> TRUE)

\* what a call gives back: the module after it, the normalized values before
\* the affine transform, and the returned array or the exception raised
NoArray == [shape |-> <<>>, data |-> <<>>]
Return(s, xn, y) == [self |-> s, norm |-> xn, raised |-> "none", out |-> y]
Raise(s, e) == [self |-> s, norm |-> NoArray, raised |-> e, out |-> NoArray]
Has(s, name) == name \in DOMAIN s

\* (self.weight * x + self.bias) if "weight" in self else x
Affine(s, x) == IF Has(s, "weight") THEN Add(Mul(s.weight, x), s.bias) ELSE x

(***************************************************************************)
(* LayerNorm                                                               *)
(***************************************************************************)
LayerNormInit(dims, eps, affine) ==
    (IF affine
        THEN ("bias" :> Zeros(<<dims>>)) @@ ("weight" :> Ones(<<dims>>))
        ELSE ModuleInit)
    @@ ("eps" :> eps) @@ ("dims" :> dims) @@ ModuleInit

\* LayerNorm with the statistics taken over the first axis
LayerNormCall_OverFirstAxis(s, x) ==
    LET means == Mean(x, 0, TRUE)
        var == Var(x, 0, TRUE)
        xn == Mul(Sub(x, means), Rsqrt(Add(var, Scalar(s.eps))))
    IN  Return(s, xn, Affine(s, xn))

LayerNormCall(s, x) ==
    LET means == Mean(x, -1, TRUE)
        var == Var(x, -1, TRUE)
        xn == Mul(Sub(x, means), Rsqrt(Add(var, Scalar(s.eps))))
    IN  Return(s, xn, Affine(s, xn))

(***************************************************************************)
(* RMSNorm                                                                 *)
(***************************************************************************)
RMSNormInit(dims, eps) ==
    ("weight" :> Ones(<<dims>>)) @@ ("eps" :> eps) @@ ModuleInit

\* RMSNorm with S = 1 / dims, the square root forgotten
RMSNormCall_ScaleByDims(s, x) ==
    LET S == NDiv(NOne, NInt(x.shape[Ndim(x)]))
        n == Sum(Square(Mul(x, Scalar(S))), -1, TRUE)
        r == Rsqrt(Add(n, Scalar(s.eps)))
    IN  Return(s, NoArray, Mul(Mul(s.weight, x), r))

RMSNormCall(s, x) ==
    LET S == NDiv(NOne, NSqrt(NInt(x.shape[Ndim(x)])))
        n == Sum(Square(Mul(x, Scalar(S))), -1, TRUE)
        r == Rsqrt(Add(n, Scalar(s.eps)))
    IN  Return(s, NoArray, Mul(Mul(s.weight, x), r))

(***************************************************************************)
(* GroupNorm                                                               *)
(***************************************************************************)
GroupNormInit(num_groups, dims, eps, affine, pytorch_compatible) ==
    (IF affine
        THEN ("bias" :> Zeros(<<dims>>)) @@ ("weight" :> Ones(<<dims>>))
        ELSE ModuleInit)
    @@ ("num_groups" :> num_groups) @@ ("dims" :> dims) @@ ("eps" :> eps)
    @@ ("pytorch_compatible" :> pytorch_compatible) @@ ModuleInit

\* batch, *rest, dims = x.shape
Batch(x) == x.shape[1]
Rest(x) == SubSeq(x.shape, 2, Ndim(x) - 1)
Dims(x) == x.shape[Ndim(x)]

pytorch_compatible_group_norm(s, x) ==
    LET num_groups == s.num_groups
        batch == Batch(x)
        dims == Dims(x)
        x1 == Reshape(x, <<batch, -1, num_groups, dims \div num_groups>>)
        x2 == Reshape(Transpose(x1, <<0, 1, 3, 2>>), <<batch, -1, num_groups>>)
        means == Mean(x2, 1, TRUE)
        var == Var(x2, 1, TRUE)
        x3 == Mul(Sub(x2, means), Rsqrt(Add(var, Scalar(s.eps))))
        x4 == Reshape(x3, <<batch, -1, dims \div num_groups, num_groups>>)
    IN  Reshape(Transpose(x4, <<0, 1, 3, 2>>), <<batch>> \o Rest(x) \o <<dims>>)

\* group norm that splits the flattened positions, not the features, into
\* num_groups blocks
group_norm_blocks(s, x) ==
    LET num_groups == s.num_groups
        batch == Batch(x)
        dims == Dims(x)
        x1 == Reshape(x, <<batch, num_groups, -1>>)
        means == Mean(x1, 2, TRUE)
        var == Var(x1, 2, TRUE)
        x2 == Mul(Sub(x1, means), Rsqrt(Add(var, Scalar(s.eps))))
    IN  Reshape(x2, <<batch>> \o Rest(x) \o <<dims>>)

group_norm(s, x) ==
    LET num_groups == s.num_groups
        batch == Batch(x)
        dims == Dims(x)
        x1 == Reshape(x, <<batch, -1, num_groups>>)
        means == Mean(x1, 1, TRUE)
        var == Var(x1, 1, TRUE)
        x2 == Mul(Sub(x1, means), Rsqrt(Add(var, Scalar(s.eps))))
    IN  Reshape(x2, <<batch>> \o Rest(x) \o <<dims>>)

GroupNormCall(s, x) ==
    LET xn == IF s.pytorch_compatible
                 THEN pytorch_compatible_group_norm(s, x)
                 ELSE group_norm(s, x)
    IN  Return(s, xn, Affine(s, xn))

(***************************************************************************)
(* BatchNorm1d                                                             *)
(***************************************************************************)
\* a constructor that creates weight and bias whatever affine says
BatchNorm1dInit_AlwaysAffine(num_features, eps, momentum, affine) ==
    ("bias" :> Zeros(<<num_features>>)) @@ ("weight" :> Ones(<<num_features>>))
    @@ ("num_features" :> num_features) @@ ("eps" :> eps)
    @@ ("momentum" :> momentum)
    @@ ("running_mean" :> Zeros(<<num_features>>))
    @@ ("running_var" :> Ones(<<num_features>>)) @@ ModuleInit

BatchNorm1dInit(num_features, eps, momentum, affine) ==
    (IF affine
        THEN ("bias" :> Zeros(<<num_features>>)) @@ ("weight" :> Ones(<<num_features>>))
        ELSE ModuleInit)
    @@ ("num_features" :> num_features) @@ ("eps" :> eps)
    @@ ("momentum" :> momentum)
    @@ ("running_mean" :> Zeros(<<num_features>>))
    @@ ("running_var" :> Ones(<<num_features>>)) @@ ModuleInit

\* the update with the roles of momentum and 1 - momentum exchanged
calc_stats_MomentumOnNew(s, x) ==
    LET means == Mean(x, 0, TRUE)
        var == Var(x, 0, TRUE)
        keep == Scalar(NSub(NOne, s.momentum))
        take == Scalar(s.momentum)
        s1 == [s EXCEPT !.running_mean = Add(Mul(keep, s.running_mean), Mul(take, means))]
        s2 == [s1 EXCEPT !.running_var = Add(Mul(keep, s1.running_var), Mul(take, var))]
    IN  [self |-> s2, means |-> means, var |-> var]

\* returns the statistics of the batch and the module with the running
\* statistics replaced
calc_stats(s, x) ==
    LET means == Mean(x, 0, TRUE)
        var == Var(x, 0, TRUE)
        keep == Scalar(s.momentum)
        take == Scalar(NSub(NOne, s.momentum))
        s1 == [s EXCEPT !.running_mean = Add(Mul(keep, s.running_mean), Mul(take, means))]
        s2 == [s1 EXCEPT !.running_var = Add(Mul(keep, s1.running_var), Mul(take, var))]
    IN  [self |-> s2, means |-> means, var |-> var]

\* a call that updates the running statistics in evaluation mode too
BatchNorm1dCall_AlwaysUpdates(s, x) ==
    IF Ndim(x) # 2
    THEN Raise(s, "ValueError")
    ELSE LET st == IF s.training
                      THEN calc_stats(s, x)
                      ELSE [self |-> calc_stats(s, x).self,
                            means |-> s.running_mean, var |-> s.running_var]
             xn == Mul(Sub(x, st.means), Rsqrt(Add(st.var, Scalar(s.eps))))
         IN  Return(st.self, xn, Affine(st.self, xn))

\* a call that checks the rank after the statistics have been updated
BatchNorm1dCall_ChecksRankLate(s, x) ==
    LET st == IF s.training
                 THEN calc_stats(s, x)
                 ELSE [self |-> s, means |-> s.running_mean, var |-> s.running_var]
        xn == Mul(Sub(x, st.means), Rsqrt(Add(st.var, Scalar(s.eps))))
    IN  IF Ndim(x) # 2
        THEN Raise(st.self, "ValueError")
        ELSE Return(st.self, xn, Affine(st.self, xn))

\* a call that normalizes with the statistics of the batch in both modes
BatchNorm1dCall_BatchStatsInEval(s, x) ==
    IF Ndim(x) # 2
    THEN Raise(s, "ValueError")
    ELSE LET st == IF s.training
                      THEN calc_stats(s, x)
                      ELSE [self |-> s, means |-> Mean(x, 0, TRUE),
                            var |-> Var(x, 0, TRUE)]
             xn == Mul(Sub(x, st.means), Rsqrt(Add(st.var, Scalar(s.eps))))
         IN  Return(st.self, xn, Affine(st.self, xn))

\* a call without the rank check
BatchNorm1dCall_NoRankCheck(s, x) ==
    LET st == IF s.training
                 THEN calc_stats(s, x)
                 ELSE [self |-> s, means |-> s.running_mean, var |-> s.running_var]
        xn == Mul(Sub(x, st.means), Rsqrt(Add(st.var, Scalar(s.eps))))
    IN  Return(st.self, xn, Affine(st.self, xn))

BatchNorm1dCall(s, x) ==
    IF Ndim(x) # 2
    THEN Raise(s, "ValueError")
    ELSE LET st == IF s.training
                      THEN calc_stats(s, x)
                      ELSE [self |-> s, means |-> s.running_mean, var |-> s.running_var]
             xn == Mul(Sub(x, st.means), Rsqrt(Add(st.var, Scalar(s.eps))))
         IN  Return(st.self, xn, Affine(st.self, xn))

\* Module.train() / Module.eval(): only the mode flag changes
SetTraining(s, mode) == [s EXCEPT !.training = mode]

\* Module.update() as an optimizer uses it: the learned vectors that exist
\* get new values of the same shape
UpdateParams(s, w, b) ==
    IF Has(s, "bias") THEN [s EXCEPT !.weight = w, !.bias = b]
    ELSE [s EXCEPT !.weight = w]

(***************************************************************************)
(* Bounds of the exploration                                               *)
(***************************************************************************)
\* training-mode calls of one BatchNorm1d layer
MaxCalls == 2

DimsSet == {2}
EpsSet == {Rat(1, 4)}
MomentumSet == {Rat(1, 10)}
BatchSizes == {1, 2}
Vals == {0, 1}
ParamVals == {2}

Vec(shape, f) == Array(shape, [k \in 1..Prod(shape) |-> NInt(f[k])])
\* every array of a shape with elements in Vals
Arrays(shape) == {Vec(shape, f) : f \in [1..Prod(shape) -> Vals]}
\* batches whose rows are <<v, 3v+1, ...>>: features with different
\* means and variances; the statistics of a batch do not depend on the
\* order of its rows, so the rows are taken in ascending order
FeatureRow(v, n) == [i \in 1..n |-> IF i = 1 THEN v ELSE 3 * v + i - 1]
Ascending(b) == {f \in [1..b -> Vals] : \A i \in 1..(b - 1) : f[i] <= f[i + 1]}
Batches(b, n) ==
    {Vec(<<b, n>>, [k \in 1..(b * n) |->
                      FeatureRow(f[((k - 1) \div n) + 1], n)[((k - 1) % n) + 1]])
        : f \in Ascending(b)}
\* learned vectors an optimizer step may install
ParamVecs(n) == {Vec(<<n>>, [i \in 1..n |-> p + i - 1]) : p \in ParamVals}

\* the inputs a layer is called with
LayerNormInputs(d) == Arrays(<<d>>) \cup Arrays(<<2, d>>)
GroupNormInputs(d) == Arrays(<<1, d>>) \cup Arrays(<<1, 2, d>>)
BatchNorm1dInputs(d) ==
    (UNION {Batches(b, d) : b \in BatchSizes}) \cup {Zeros(<<d>>), Zeros(<<1, d, 1>>)}

Divisors(n) == {g \in 1..n : n % g = 0}

(***************************************************************************)
(* The state machine: one layer, constructed in Init, then called,         *)
(* switched between modes and updated in any order.                        *)
(***************************************************************************)
Fresh(c, s, args) ==
    /\ cls = c
    /\ self = s
    /\ ctor = args
    /\ lastX = NoArray
    /\ lastTraining = TRUE
    /\ lastNorm = NoArray
    /\ lastY = [raised |-> "none", value |-> NoArray]
    /\ trainLog = <<>>

InitLayerNorm ==
    \E dims \in DimsSet, eps \in EpsSet, affine \in BOOLEAN :
        Fresh("LayerNorm", LayerNormInit(dims, eps, affine),
              [dims |-> dims, affine |-> affine])

\* RMSNorm has no affine argument
InitRMSNorm ==
    \E dims \in DimsSet, eps \in EpsSet :
        Fresh("RMSNorm", RMSNormInit(dims, eps),
              [dims |-> dims])

InitGroupNorm ==
    \E dims \in DimsSet, eps \in EpsSet, affine \in BOOLEAN :
        \E g \in Divisors(dims), pc \in BOOLEAN :
            Fresh("GroupNorm", GroupNormInit(g, dims, eps, affine, pc),
                  [dims |-> dims, affine |-> affine])

InitBatchNorm1d ==
    \E dims \in DimsSet, eps \in EpsSet, affine \in BOOLEAN :
        \E momentum \in MomentumSet :
            Fresh("BatchNorm1d", BatchNorm1dInit(dims, eps, momentum, affine),
                  [dims |-> dims, affine |-> affine])

Init ==
    \/ InitLayerNorm
    \/ InitRMSNorm
    \/ InitGroupNorm
    \/ InitBatchNorm1d

Returned(x, r) ==
    /\ self' = r.self
    /\ lastX' = x
    /\ lastTraining' = self.training
    /\ lastNorm' = r.norm
    /\ lastY' = [raised |-> r.raised, value |-> r.out]
    /\ UNCHANGED <<cls, ctor>>

CallLayerNorm ==
    /\ cls = "LayerNorm"
    /\ \E x \in LayerNormInputs(self.dims) :
       \E r \in {LayerNormCall(self, x)} :
            Returned(x, r)
    /\ UNCHANGED trainLog

CallRMSNorm ==
    /\ cls = "RMSNorm"
    /\ \E x \in LayerNormInputs(ctor.dims) :
       \E r \in {RMSNormCall(self, x)} :
            Returned(x, r)
    /\ UNCHANGED trainLog

CallGroupNorm ==
    /\ cls = "GroupNorm"
    /\ \E x \in GroupNormInputs(self.dims) :
       \E r \in {GroupNormCall(self, x)} :
            Returned(x, r)
    /\ UNCHANGED trainLog

CallBatchNorm1d ==
    /\ cls = "BatchNorm1d"
    /\ \E x \in BatchNorm1dInputs(self.num_features) :
            /\ (self.training /\ Ndim(x) = 2) => Len(trainLog) < MaxCalls
            /\ \E r \in {BatchNorm1dCall(self, x)} : Returned(x, r)
            /\ trainLog' = IF self.training /\ Ndim(x) = 2
                              THEN Append(trainLog, x) ELSE trainLog

Train ==
    /\ self' = SetTraining(self, TRUE)
    /\ UNCHANGED <<cls, ctor, lastX, lastTraining, lastNorm, lastY, trainLog>>

Eval ==
    /\ self' = SetTraining(self, FALSE)
    /\ UNCHANGED <<cls, ctor, lastX, lastTraining, lastNorm, lastY, trainLog>>

Update ==
    /\ Has(self, "weight")
    /\ \E w \in ParamVecs(ctor.dims), b \in ParamVecs(ctor.dims) :
            self' = UpdateParams(self, w, b)
    /\ UNCHANGED <<cls, ctor, lastX, lastTraining, lastNorm, lastY, trainLog>>

Next ==
    \/ CallLayerNorm
    \/ CallRMSNorm
    \/ CallGroupNorm
    \/ CallBatchNorm1d
    \/ Train
    \/ Eval
    \/ Update

Spec == Init /\ [][Next]_vars

\* one class of layer at a time
NextLayerNorm ==
    \/ CallLayerNorm
    \/ Train
    \/ Eval
    \/ Update
SpecLayerNorm == InitLayerNorm /\ [][NextLayerNorm]_vars

NextRMSNorm ==
    \/ CallRMSNorm
    \/ Train
    \/ Eval
    \/ Update
SpecRMSNorm == InitRMSNorm /\ [][NextRMSNorm]_vars

NextGroupNorm ==
    \/ CallGroupNorm
    \/ Train
    \/ Eval
    \/ Update
SpecGroupNorm == InitGroupNorm /\ [][NextGroupNorm]_vars

NextBatchNorm1d ==
    \/ CallBatchNorm1d
    \/ Train
    \/ Eval
    \/ Update
SpecBatchNorm1d == InitBatchNorm1d /\ [][NextBatchNorm1d]_vars

(***************************************************************************)
(* Properties.  The expected values are written element by element from    *)
(* the formulas, with plain sums over the batch, not with the array        *)
(* operations the layers use.                                              *)
(***************************************************************************)
\* the last call returned an array
IsArray(y) == y.raised = "none" /\ y.value # NoArray

\* a step that is a call of the layer: it records its input, its result, the
\* mode it ran in, or a logged batch
CallStep ==
    \/ lastX' # lastX
    \/ lastY' # lastY
    \/ lastTraining' # lastTraining
    \/ trainLog' # trainLog

\* element (b, f) of a 2-D array, 1-based
El(x, b, f) == x.data[(b - 1) * x.shape[2] + f]

RECURSIVE ColumnSum(_, _, _)
ColumnSum(x, f, b) == IF b = 0 THEN NZero ELSE NAdd(El(x, b, f), ColumnSum(x, f, b - 1))
BatchMean(x, f) == NDiv(ColumnSum(x, f, x.shape[1]), NInt(x.shape[1]))
RECURSIVE ColumnSquares(_, _, _, _)
ColumnSquares(x, f, b, mean) ==
    IF b = 0 THEN NZero
    ELSE NAdd(NSquare(NSub(El(x, b, f), mean)), ColumnSquares(x, f, b - 1, mean))
BatchVar(x, f) ==
    NDiv(ColumnSquares(x, f, x.shape[1], BatchMean(x, f)), NInt(x.shape[1]))

\* momentum * old + (1 - momentum) * new
EMA(momentum, old, new) ==
    NAdd(NMul(momentum, old), NMul(NSub(NOne, momentum), new))
\* the running statistics of feature f after the first k logged batches
RECURSIVE FoldMean(_, _, _, _)
FoldMean(momentum, log, f, k) ==
    IF k = 0 THEN NZero
    ELSE EMA(momentum, FoldMean(momentum, log, f, k - 1), BatchMean(log[k], f))
RECURSIVE FoldVar(_, _, _, _)
FoldVar(momentum, log, f, k) ==
    IF k = 0 THEN NOne
    ELSE EMA(momentum, FoldVar(momentum, log, f, k - 1), BatchVar(log[k], f))

\* C1: running_mean and running_var of a BatchNorm1d change only on a step
\* that is a successful call (2-D input) made in training mode; calls in
\* evaluation mode, failed calls and mode switches leave both as they were.
C1_RunningStatsChangeOnlyInTraining ==
    [][(self'.running_mean # self.running_mean \/ self'.running_var # self.running_var)
          => /\ self.training
             /\ trainLog' = Append(trainLog, lastX')
             /\ Ndim(lastX') = 2
             /\ IsArray(lastY')]_vars

\* an evaluation-mode call that followed training calls, with the running
\* statistics away from their initial values
C1_Witness ==
    /\ IsArray(lastY)
    /\ ~lastTraining
    /\ Len(trainLog) = 2
    /\ self.running_mean.data # Zeros(<<self.num_features>>).data
    /\ self.running_var.data # Ones(<<self.num_features>>).data

\* C2: the running statistics start at zeros and ones, and after k
\* training-mode calls they hold the exponential moving average
\* momentum * old + (1 - momentum) * (batch mean, batch variance) folded over
\* the k inputs in call order, feature by feature.
C2_RunningStatsAreEMAFold ==
    /\ Len(self.running_mean.data) = self.num_features
    /\ Len(self.running_var.data) = self.num_features
    /\ \A f \in 1..self.num_features :
          /\ self.running_mean.data[f]
                = FoldMean(self.momentum, trainLog, f, Len(trainLog))
          /\ self.running_var.data[f]
                = FoldVar(self.momentum, trainLog, f, Len(trainLog))

\* two training calls on different batches
C2_Witness ==
    /\ Len(trainLog) = 2
    /\ trainLog[1] # trainLog[2]
    /\ trainLog[1].shape[1] = 2
    /\ self.running_var.data[1] # self.running_var.data[2]

\* C3: a call with an input whose rank is not two raises ValueError, in
\* training mode and in evaluation mode, and leaves the module (running
\* statistics, weight, bias) as it was.
C3_RankCheckRaisesAndKeepsState ==
    [][(CallStep /\ Ndim(lastX') # 2)
          => (lastY'.raised = "ValueError" /\ self' = self)]_vars

\* a 3-D input rejected in training mode after the statistics have moved
C3_Witness ==
    /\ lastY.raised = "ValueError"
    /\ lastTraining
    /\ Ndim(lastX) = 3
    /\ trainLog # <<>>

\* the statistics a call normalizes with: those of the batch in training
\* mode, those left by the earlier training calls in evaluation mode
UsedMean(training, momentum, log, x, f) ==
    IF training THEN BatchMean(x, f) ELSE FoldMean(momentum, log, f, Len(log))
UsedVar(training, momentum, log, x, f) ==
    IF training THEN BatchVar(x, f) ELSE FoldVar(momentum, log, f, Len(log))
\* column f of xn is column f of x normalized with the statistics of the
\* feature
ColumnIs(training, s, log, x, xn, f) ==
    \A mean \in {UsedMean(training, s.momentum, log, x, f)} :
    \A var \in {UsedVar(training, s.momentum, log, x, f)} :
    \A scale \in {NRsqrt(NAdd(var, s.eps))} :
    \A b \in 1..x.shape[1] :
        El(xn, b, f) = NMul(NSub(El(x, b, f), mean), scale)
\* y is weight * xn + bias, feature by feature, when the layer has the
\* learned vectors, and xn when it has not
Expected(s, f, v) ==
    IF Has(s, "weight") THEN NAdd(NMul(s.weight.data[f], v), s.bias.data[f]) ELSE v
AffineIs(s, xn, y) ==
    /\ y.shape = xn.shape
    /\ \A b \in 1..xn.shape[1], f \in 1..xn.shape[2] :
          El(y, b, f) = Expected(s, f, El(xn, b, f))

C9_OutputShapeIsInputShape ==
    IsArray(lastY)
        => /\ lastY.value.shape = lastX.shape
           /\ Len(lastY.value.data) = Prod(lastX.shape)

\* an evaluation call after training calls on an affine layer
C9_Witness ==
    /\ IsArray(lastY)
    /\ ~lastTraining
    /\ Has(self, "weight")
    /\ Len(trainLog) = 2
    /\ lastX.shape = <<2, 2>>

\* C10: running_mean and running_var always have shape (num_features,).
C10_RunningStatsKeepShape ==
    /\ self.running_mean.shape = <<self.num_features>>
    /\ self.running_var.shape = <<self.num_features>>

(***************************************************************************)
(* GroupNorm, LayerNorm, RMSNorm and the learned vectors                   *)
(***************************************************************************)
\* C5: when num_groups equals dims, a GroupNorm layer computes the same
\* output for an input with pytorch_compatible set as with it cleared.
C5_PytorchCompatibleAgreesWhenGroupsAreDims ==
    (lastX # NoArray /\ self.num_groups = self.dims)
        => GroupNormCall([self EXCEPT !.pytorch_compatible = TRUE], lastX).out
              = GroupNormCall([self EXCEPT !.pytorch_compatible = FALSE], lastX).out

\* a call of a pytorch-compatible layer with one group per feature on an
\* input with two positions that differ, so that the output is not all bias
C5_Witness ==
    /\ IsArray(lastY)
    /\ self.num_groups = self.dims
    /\ self.dims > 1
    /\ self.pytorch_compatible
    /\ lastX.shape = <<1, 2, self.dims>>
    /\ lastX.data[1] # lastX.data[1 + self.dims]
    /\ lastNorm.data[1] # NZero

\* rows of an array along its last axis
RowLen(x) == x.shape[Ndim(x)]
Rows(x) == 1..(Len(x.data) \div RowLen(x))
RowEl(x, r, i) == x.data[(r - 1) * RowLen(x) + i]
RECURSIVE RowSum(_, _, _)
RowSum(x, r, i) == IF i = 0 THEN NZero ELSE NAdd(RowEl(x, r, i), RowSum(x, r, i - 1))
RowMean(x, r) == NDiv(RowSum(x, r, RowLen(x)), NInt(RowLen(x)))
RECURSIVE RowSquares(_, _, _, _)
RowSquares(x, r, i, mean) ==
    IF i = 0 THEN NZero
    ELSE NAdd(NSquare(NSub(RowEl(x, r, i), mean)), RowSquares(x, r, i - 1, mean))
RowVar(x, r) == NDiv(RowSquares(x, r, RowLen(x), RowMean(x, r)), NInt(RowLen(x)))
RowMeanSquare(x, r) == NDiv(RowSquares(x, r, RowLen(x), NZero), NInt(RowLen(x)))

C7_OutputDividesByRMSPlusEps ==
    [][CallStep
          => /\ IsArray(lastY')
             /\ \A r \in Rows(lastX') :
                \A ms \in {RowMeanSquare(lastX', r)} :
                \A rms \in {NSqrt(ms)} :
                \A den \in {NAdd(rms, self.eps)} :
                \A scale \in {NInv(den)} :
                \A i \in 1..RowLen(lastX') :
                    RowEl(lastY'.value, r, i)
                        = NMul(NMul(self.weight.data[i], RowEl(lastX', r, i)), scale)]_vars

\* C7: the RMSNorm output is weight * x / sqrt(mean(x^2) + eps), the mean of
\* the squares taken over the last axis and eps added under the root.
C7_OutputDividesByRootOfMeanSquarePlusEps ==
    [][CallStep
          => /\ IsArray(lastY')
             /\ lastY'.value.shape = lastX'.shape
             /\ \A r \in Rows(lastX') :
                \A ms \in {RowMeanSquare(lastX', r)} :
                \A radicand \in {NAdd(ms, self.eps)} :
                \A den \in {NSqrt(radicand)} :
                \A scale \in {NInv(den)} :
                \A i \in 1..RowLen(lastX') :
                    RowEl(lastY'.value, r, i)
                        = NMul(NMul(self.weight.data[i], RowEl(lastX', r, i)), scale)]_vars

\* a call with learned weights on a 2-D input whose rows have different
\* mean squares
C7_Witness ==
    /\ IsArray(lastY)
    /\ self.weight # Ones(<<ctor.dims>>)
    /\ lastX.shape = <<2, ctor.dims>>
    /\ RowMeanSquare(lastX, 1) # NZero
    /\ RowMeanSquare(lastX, 2) # RowMeanSquare(lastX, 1)
    /\ \E k \in 1..Len(lastY.value.data) :
          lastY.value.data[k] \notin {NZero, lastX.data[k]}

\* the learned vectors of a module, NoArray for one it does not have
Params(s) ==
    <<IF Has(s, "weight") THEN s.weight ELSE NoArray,
      IF Has(s, "bias") THEN s.bias ELSE NoArray>>

\* the layer has weight and bias exactly when constructed with affine set;
\* RMSNorm has no affine argument, always a weight and never a bias
ParamsFollowAffine ==
    IF cls = "RMSNorm"
    THEN Has(self, "weight") /\ ~Has(self, "bias")
    ELSE (Has(self, "weight") <=> ctor.affine) /\ (Has(self, "bias") <=> ctor.affine)

\* C8: weight and bias exist exactly when the layer is affine (RMSNorm always
\* has a weight), each is a vector of length dims / num_features, a layer
\* without them returns the normalized values, and no call changes them.
C8_ParamsExistIffAffineAndCallsKeepThem ==
    /\ [](/\ ParamsFollowAffine
          /\ \A p \in {Params(self)[1], Params(self)[2]} \ {NoArray} :
                p.shape = <<ctor.dims>> /\ Len(p.data) = ctor.dims
          /\ (IsArray(lastY) /\ ~Has(self, "weight")) => lastY.value = lastNorm)
    /\ [][CallStep => Params(self') = Params(self)]_vars

\* a call of a BatchNorm1d layer built without affine, in training mode
C8_Witness ==
    /\ cls = "BatchNorm1d"
    /\ ~ctor.affine
    /\ ~Has(self, "weight")
    /\ IsArray(lastY)
    /\ lastTraining
    /\ lastY.value = lastNorm
    /\ lastNorm.data[1] # lastX.data[1]

====
